---- MODULE Spec2Model ----
(***************************************************************************)
(* Model of the OMR answer-sheet service.                                  *)
(*                                                                         *)
(*   src/app_v2.py  grid strategy: the answer grid is cut into rows and    *)
(*                  five cells per row, each cell is scored by its         *)
(*                  fraction of dark pixels, a decision turns the five     *)
(*                  scores into a verdict.                                 *)
(*   src/app.py     remote-classifier strategy: the grid is cut into row   *)
(*                  crops, each crop is sent to a classifier by a pool of  *)
(*                  worker threads, the verdicts are collected as the      *)
(*                  calls complete and sorted by question number.          *)
(*                                                                         *)
(* Numbers.  A fill score is the float count/size of a cell; it is kept    *)
(* here as the pair <<count, size>> and compared by cross-multiplication.  *)
(* The float64 comparisons of the source (d < 0.1, d > max * 0.7) give the *)
(* same answers as the exact ones for every cell of at most 14 pixels; for *)
(* larger cells they differ only where a score is exactly 0.7 times the    *)
(* maximum (7/15 against 10/15), which the float product can leave just    *)
(* below the score.                                                        *)
(***************************************************************************)
EXTENDS Integers, Sequences, FiniteSets, TLC

VARIABLES
    strategy,       \* "grid" (app_v2.py), "remote" (app.py) or "decide"
    request,        \* the JSON body posted to /process-omr
    payload,        \* what the image URL served
    pc,             \* position of the request in process_omr / process_omr_sheet
    num_questions,  \* numberOfQuestions of the request
    api_key,        \* remote: whether OPENAI_API_KEY is set
    image,          \* the downloaded image [decoded, height, width, pattern]
    grid_regions,   \* grid strategy: the list of detected grid blocks
    main_grid,      \* grid strategy: the block the answers are read from
    row_imgs,       \* grid strategy: the row slice read for each question
    densities,      \* the five fill scores last measured, <<count, size>> each
    question_rows,  \* remote: the row crops of extract_question_rows
    classifier,     \* remote: what the classifier answers for each question
    futures,        \* remote: per question, the state of its submitted task
    arrival,        \* remote: the question numbers in the order as_completed yielded them
    results,        \* the list of verdicts being built
    response        \* the HTTP response of process_omr: [status, body]

vars == <<strategy, request, payload, pc, num_questions, api_key, image,
          grid_regions, main_grid, row_imgs, densities, question_rows, classifier,
          futures, arrival, results, response>>

NoPayload == [kind |-> "none"]

NoImage == [decoded |-> FALSE, height |-> 0, width |-> 0, pattern |-> "blank"]
NoGrid == [x |-> 0, y |-> 0, w |-> 0, h |-> 0]
NoResponse == [status |-> 0]

(***************************************************************************)
(* Bounds of the model and constants of the program.                       *)
(***************************************************************************)
\* pixels of one cell in the decision-only specification
CellArea == 11

\* app_v2.py:160  for pos in range(5)
OptionsPerQuestion == 5

-----------------------------------------------------------------------------
(***************************************************************************)
(* Fill scores: the float count/size as the pair <<count, size>>.          *)
(***************************************************************************)
Zero == <<0, 1>>

\* a < b, a = b on scores
ScoreLess(a, b) == a[1] * b[2] < b[1] * a[2]
ScoreEq(a, b) == a[1] * b[2] = b[1] * a[2]

\* d < 0.1
BelowFloor(d) == 10 * d[1] < d[2]

\* d > m * 0.7
AboveRelative(d, m) == 10 * d[1] * m[2] > 7 * m[1] * d[2]

\* Python's max(list): the first of the maximal elements
RECURSIVE PyMax(_)
PyMax(s) ==
    IF Len(s) = 1 THEN s[1]
    ELSE LET m == PyMax(SubSeq(s, 1, Len(s) - 1))
         IN  IF ScoreLess(m, s[Len(s)]) THEN s[Len(s)] ELSE m

\* Python's list.index(v): the first position holding v, 0-based
PyIndex(s, v) ==
    (CHOOSE i \in 1..Len(s) :
        /\ ScoreEq(s[i], v)
        /\ \A j \in 1..(i - 1) : ~ScoreEq(s[j], v)) - 1

\* f'{x:.2f}' prints the float nearest to x rounded to two decimals.  When
\* count/size lies exactly halfway, (2j + 1)/200, the float is a little above
\* or below it (or, for odd eighths, exactly it, and the tie goes to the even
\* digit): these are the j whose float prints as (j + 1)/100.
TiesPrintedUp ==
    {0, 2, 3, 5, 6, 8, 9, 11, 13, 16, 19, 22, 25, 26, 27, 31, 32, 33, 37, 38,
     39, 40, 44, 45, 46, 50, 51, 52, 53, 54, 55, 63, 64, 65, 66, 67, 68, 75,
     76, 77, 78, 79, 80, 87, 88, 89, 90, 91, 92, 93}

PyFormat2f(d) ==
    LET below      == (100 * d[1]) \div d[2]
        twice_rest == 2 * ((100 * d[1]) % d[2])
        hundredths == IF twice_rest > d[2] THEN below + 1
                      ELSE IF twice_rest < d[2] THEN below
                      ELSE IF below \in TiesPrintedUp THEN below + 1 ELSE below
        frac       == hundredths % 100
    IN  ToString(hundredths \div 100) \o "." \o
        (IF frac < 10 THEN "0" ELSE "") \o ToString(frac)

-----------------------------------------------------------------------------
(***************************************************************************)
(* app_v2.py, extract_answers_from_grid, lines 172-196: the decision that  *)
(* turns the five fill scores of a row into the verdict of question q.     *)
(***************************************************************************)
\* max_density = max(densities)
max_density(ds) == PyMax(ds)

\* the 0-based index taken for the position
zero_based_pos(ds) == PyIndex(ds, max_density(ds))

\* selected_pos = densities.index(max_density) + 1
selected_pos(ds) == PyIndex(ds, max_density(ds)) + 1

\* a count that leaves out the slot holding the maximum
dark_count_besides_selected(ds) ==
    Cardinality({i \in 1..Len(ds) : /\ i # selected_pos(ds)
                                    /\ AboveRelative(ds[i], max_density(ds))})

\* dark_count = sum(1 for d in densities if d > max_density * 0.7)
dark_count(ds) ==
    Cardinality({i \in 1..Len(ds) : AboveRelative(ds[i], max_density(ds))})

\* ambiguous = dark_count > 1
ambiguous(ds) == dark_count(ds) > 1

\* the branch of line 173 and the two results.append of lines 175 and 190
row_verdict(q, ds) ==
    IF Len(ds) = 0 \/ BelowFloor(max_density(ds))
    THEN [questionNumber |-> q,
          selectedOption |-> "",
          confidence     |-> Zero,
          ambiguous      |-> FALSE,
          notes          |-> "No answer detected"]
    ELSE [questionNumber |-> q,
          selectedOption |-> IF ~ambiguous(ds) THEN ToString(selected_pos(ds)) ELSE "",
          confidence     |-> max_density(ds),
          ambiguous      |-> ambiguous(ds),
          notes          |-> "Density: " \o PyFormat2f(max_density(ds)) \o
                             (IF ambiguous(ds) THEN " - Multiple marks" ELSE "")]

-----------------------------------------------------------------------------
(***************************************************************************)
(* Images.  A decoded image is [height, width, pattern]; the pattern says   *)
(* which pixels the binarisation of line 113 (THRESH_BINARY_INV + OTSU)     *)
(* turns into foreground, in image coordinates.                             *)
(***************************************************************************)
Patterns == {"blank", "black", "stripes", "marks"}
\* the pattern of the large scan: one dark column of marks
ScanPattern == "blob"

Dark(img, y, x) ==
    CASE img.pattern = "blank"   -> FALSE
      [] img.pattern = "black"   -> TRUE
      [] img.pattern = "stripes" -> x % 4 = 3
      [] img.pattern = "marks"   -> (x + 2 * y) % 7 < 2 /\ y % 3 # 1
      [] img.pattern = "blob"    -> x \in 150..179 /\ (y \div 10) % 3 # 0

\* dict.get(key, default)
PyGet(d, key, default) == IF key \in DOMAIN d THEN d[key] ELSE default

Min(a, b) == IF a < b THEN a ELSE b
Max(a, b) == IF a > b THEN a ELSE b

\* int(n * 0.2), int(n * 0.7), int(n * 0.15) ...: the float product truncated.
\* Equal to the exact floor for every n the model uses (n * 0.7 first differs
\* at n = 90).
PyIntMul(n, hundredths) == (n * hundredths) \div 100

\* a[lo:hi] on an axis of length len, 0 <= lo: the half-open range kept
PySlice(lo, hi, len) == [lo |-> Min(lo, len), hi |-> Max(Min(lo, len), Min(hi, len))]

-----------------------------------------------------------------------------
(***************************************************************************)
(* app_v2.py, extract_answers_from_grid, lines 107-170: the cells of       *)
(* question q in a grid block g = [x, y, w, h] and their fill scores.      *)
(***************************************************************************)
\* app_v2.py:117, :128 and app.py:87  min(num_questions, 20)
RowsPerColumn == 20

estimated_rows_per_column(n) == Min(n, RowsPerColumn)
questions_per_section(n) == Min(n, RowsPerColumn)

\* row_height = h // estimated_rows_per_column
grid_row_height(g, n) == g.h \div estimated_rows_per_column(n)

\* section_idx = (q - 1) // questions_per_section: computed, never used
section_idx(q, n) == (q - 1) \div questions_per_section(n)
question_in_section(q, n) == (q - 1) % questions_per_section(n)

\* lines 136-139
grid_row_y(g, q, n) ==
    LET ry == question_in_section(q, n) * grid_row_height(g, n)
    IN  IF ry + grid_row_height(g, n) > g.h THEN g.h - grid_row_height(g, n) ELSE ry

\* row_img = grid_thresh[row_y:row_y + row_height, :], as [y0, y1, x0, x1)
grid_row_img(g, q, n) ==
    LET ys == PySlice(grid_row_y(g, q, n), grid_row_y(g, q, n) + grid_row_height(g, n), g.h)
    IN  [y0 |-> ys.lo, y1 |-> ys.hi, x0 |-> 0, x1 |-> g.w]

RectSize(r) == (r.y1 - r.y0) * (r.x1 - r.x0)

answer_start(g) == PyIntMul(g.w, 20)
bubble_width(g) == (g.w - answer_start(g)) \div OptionsPerQuestion

\* bubble_region = row_img[:, bubble_x:bubble_x + bubble_width], pos 0-based
bubble_region(g, q, n, pos) ==
    LET row == grid_row_img(g, q, n)
        bx  == answer_start(g) + pos * bubble_width(g)
        xs  == PySlice(bx, bx + bubble_width(g), row.x1 - row.x0)
    IN  [y0 |-> row.y0, y1 |-> row.y1, x0 |-> xs.lo, x1 |-> xs.hi]

\* np.sum(bubble_region > 0) / bubble_region.size, 0.0 for an empty region
darkness(img, g, r) ==
    IF RectSize(r) = 0 THEN Zero
    ELSE <<Cardinality({p \in (r.y0 .. r.y1 - 1) \X (r.x0 .. r.x1 - 1) :
                            Dark(img, g.y + p[1], g.x + p[2])}),
           RectSize(r)>>

grid_densities(img, g, q, n) ==
    [pos \in 1..OptionsPerQuestion |-> darkness(img, g, bubble_region(g, q, n, pos - 1))]

\* one iteration of the loop of line 130
grid_verdict(img, g, q, n) ==
    IF RectSize(grid_row_img(g, q, n)) = 0
    THEN [questionNumber |-> q,
          selectedOption |-> "",
          confidence     |-> Zero,
          notes          |-> "Could not extract row"]
    ELSE row_verdict(q, grid_densities(img, g, q, n))

\* a loop whose unextractable rows leave no verdict behind
extract_answers_skipping_rows(img, g, n) ==
    SelectSeq([q \in 1..n |-> grid_verdict(img, g, q, n)],
              LAMBDA v : v.notes # "Could not extract row")

\* the whole loop: the list returned at line 198
extract_answers_from_grid(img, g, n) == [q \in 1..n |-> grid_verdict(img, g, q, n)]

-----------------------------------------------------------------------------
(***************************************************************************)
(* What a request can be, and what the image URL can serve.                *)
(***************************************************************************)
\* largest small image
MaxHeight == 30
MaxWidth == 12
\* a scan large enough for a grid block to pass the filter of app_v2.py:88
ScanHeight == 500
ScanWidth == 400

\* app.py:283, app_v2.py:250  data.get('numberOfQuestions', 45)
DefaultQuestions == 45

Raise(msg) == [raised |-> TRUE, error |-> msg]
Return(v) == [raised |-> FALSE, value |-> v]

SmallImages ==
    {[decoded |-> TRUE, height |-> hh, width |-> ww, pattern |-> pp] :
        hh \in 1..MaxHeight, ww \in {1, 7, MaxWidth}, pp \in Patterns}

\* the classifier is opaque: only the size of the image matters to app.py
RemoteImages ==
    {[decoded |-> TRUE, height |-> hh, width |-> ww, pattern |-> "blank"] :
        hh \in {1, 3, MaxHeight}, ww \in {1, MaxWidth}}

ScanImage ==
    [decoded |-> TRUE, height |-> ScanHeight, width |-> ScanWidth, pattern |-> ScanPattern]

\* the bytes behind the URL: a failing fetch, bytes that are no image, an image
Payloads(strat) ==
    {[kind |-> "http_error"], [kind |-> "undecodable"]} \cup
    {[kind |-> "image", image |-> im] :
        im \in IF strat = "grid" THEN SmallImages \cup {ScanImage} ELSE RemoteImages}

\* a download that hands on what cv2.imdecode returned without looking at it
download_image_unchecked(served) ==
    IF served.kind = "http_error" THEN Raise("HTTPError")
    ELSE IF served.kind = "undecodable" THEN Return(NoImage)
    ELSE Return(served.image)

\* download_image: requests.get, raise_for_status, cv2.imdecode
download_image(served) ==
    IF served.kind = "http_error" THEN Raise("HTTPError")
    ELSE IF served.kind = "undecodable" THEN Raise("Failed to decode image")
    ELSE Return(served.image)

-----------------------------------------------------------------------------
(***************************************************************************)
(* app_v2.py, detect_answer_grid_regions and the choice of main_grid.      *)
(* The contours cv2.findContours reports are an input: bounding boxes with *)
(* their contour area.                                                     *)
(***************************************************************************)
Contours(img) ==
    IF img.height < ScanHeight
    THEN {[x |-> 0, y |-> 0, w |-> img.width, h |-> img.height,
           area |-> img.width * img.height]}
    ELSE {[x |-> 50, y |-> 100, w |-> 250, h |-> 301, area |-> 75000],
          [x |-> 10, y |-> 20, w |-> 300, h |-> 320, area |-> 90000],
          [x |-> 5, y |-> 5, w |-> 20, h |-> 20, area |-> 400],
          [x |-> 0, y |-> 0, w |-> img.width, h |-> img.height,
           area |-> img.width * img.height]}

\* lines 77-88: the area, aspect-ratio and size filter
passes_filter(img, c) ==
    LET img_area == img.height * img.width
    IN  /\ ~(100 * c.area < 2 * img_area \/ 10 * c.area > 5 * img_area)
        /\ 8 * c.h < 10 * c.w
        /\ c.w < 3 * c.h
        /\ c.w > 200
        /\ c.h > 300

\* key=lambda r: (r['y'], r['x'])
RegionBefore(a, b) == a.y < b.y \/ (a.y = b.y /\ a.x < b.x)

\* grid_regions.sort(key): stable, each element goes after those not greater
RECURSIVE SortRegions(_)
SortRegions(s) ==
    IF Len(s) <= 1 THEN s
    ELSE LET sorted == SortRegions(SubSeq(s, 1, Len(s) - 1))
             e      == s[Len(s)]
             k      == Cardinality({i \in 1..Len(sorted) : ~RegionBefore(e, sorted[i])})
         IN  SubSeq(sorted, 1, k) \o <<e>> \o SubSeq(sorted, k + 1, Len(sorted))

\* the contours in the order cv2 reports them: any order of the set
RECURSIVE Orders(_)
Orders(S) ==
    IF S = {} THEN {<<>>}
    ELSE UNION {{<<e>> \o t : t \in Orders(S \ {e})} : e \in S}

detect_answer_grid_regions(img, contours) ==
    SortRegions(SelectSeq(contours, LAMBDA c : passes_filter(img, c)))

\* lines 214-220: the fixed-fraction crop used when nothing was detected
fallback_grid(img) ==
    [x |-> 0, y |-> PyIntMul(img.height, 20), w |-> img.width, h |-> PyIntMul(img.height, 70)]

\* key=lambda g: g['area'] if 'area' in g else g['w'] * g['h']
GridKey(g) == IF "area" \in DOMAIN g THEN g.area ELSE g.w * g.h

\* max(grid_regions, key=...): the first region of maximal key
RECURSIVE PyMaxBy(_)
PyMaxBy(s) ==
    IF Len(s) = 1 THEN s[1]
    ELSE LET m == PyMaxBy(SubSeq(s, 1, Len(s) - 1))
         IN  IF GridKey(m) < GridKey(s[Len(s)]) THEN s[Len(s)] ELSE m

-----------------------------------------------------------------------------
(***************************************************************************)
(* app.py, detect_answer_grid_bounds and extract_question_rows: the row    *)
(* crop of every question, in the coordinates of grid_image.               *)
(***************************************************************************)
detect_answer_grid_bounds(img) ==
    [x      |-> PyIntMul(img.width, 15),
     y      |-> PyIntMul(img.height, 15),
     width  |-> PyIntMul(img.width, 95) - PyIntMul(img.width, 15),
     height |-> PyIntMul(img.height, 85) - PyIntMul(img.height, 15)]

rows_per_column(n) == Min(n, RowsPerColumn)

\* one iteration of the loop of app.py:92, q 0-based as in the source
question_row(img, q, n) ==
    LET b            == detect_answer_grid_bounds(img)
        row_height   == b.height \div rows_per_column(n)
        column_idx   == q \div rows_per_column(n)
        row_in_column == q % rows_per_column(n)
        column_width == b.width \div 2
        col_x        == column_idx * column_width
        row_y        == row_in_column * row_height
        padding      == PyIntMul(row_height, 10)
        row_y_start  == Max(0, row_y - padding)
        row_y_end    == Min(b.height, row_y + row_height + padding)
        row_x_start  == Max(0, col_x)
        row_x_end    == Min(b.width, col_x + column_width)
        ys           == PySlice(row_y_start, row_y_end, b.height)
        xs           == PySlice(row_x_start, row_x_end, b.width)
        rect         == [y0 |-> ys.lo, y1 |-> ys.hi, x0 |-> xs.lo, x1 |-> xs.hi]
    IN  IF RectSize(rect) * 3 > 0
        THEN [blank |-> FALSE, rect |-> rect, size |-> RectSize(rect) * 3]
        ELSE \* np.zeros((50, width, 3))
             [blank |-> TRUE, rect |-> rect, size |-> 50 * b.width * 3]

extract_question_rows(img, n) == [i \in 1..n |-> question_row(img, i - 1, n)]

-----------------------------------------------------------------------------
(***************************************************************************)
(* app.py, analyze_row_with_ai: one call of the classifier.  A reply is    *)
(*   [kind "json", parsed]   status 200 and a JSON object as content       *)
(*   [kind "status", code]   any other status                              *)
(*   [kind "raise", error]   requests.post, response.json or json.loads    *)
(*                           raised (timeout, unparseable content)         *)
(*   [kind "encode", error]  cv2.imencode raised in image_to_base64, which *)
(*                           is called before the try of line 155          *)
(***************************************************************************)
Replies ==
    {[kind |-> "json", parsed |-> [selectedOption |-> "3", confidence |-> <<95, 100>>]],
     [kind |-> "json", parsed |-> [unrelated |-> ""]],
     [kind |-> "status", code |-> 500],
     [kind |-> "raise", error |-> "Read timed out"]}

\* cv2.imencode is given an image of no pixels only for a blank row of width 0
RepliesFor(row) ==
    Replies \cup
    (IF row.size = 0 THEN {[kind |-> "encode", error |-> "cv2.error"]} ELSE {})

\* a call that reads every reply as if its status were 200
analyze_row_ignoring_status(row, question_number, reply) ==
    IF reply.kind = "encode" THEN Raise(reply.error)
    ELSE IF reply.kind = "raise"
    THEN Return([questionNumber |-> question_number,
                 selectedOption |-> "",
                 confidence     |-> Zero,
                 ambiguous      |-> FALSE,
                 notes          |-> "Error: " \o reply.error])
    ELSE Return([questionNumber |-> question_number,
                 selectedOption |-> PyGet(PyGet(reply, "parsed", <<>>), "selectedOption", ""),
                 confidence     |-> PyGet(PyGet(reply, "parsed", <<>>), "confidence", <<8, 10>>),
                 ambiguous      |-> FALSE,
                 notes          |-> "Row-by-row AI"])

analyze_row_with_ai(row, question_number, reply) ==
    IF reply.kind = "encode" THEN Raise(reply.error)
    ELSE IF reply.kind = "raise"
    THEN Return([questionNumber |-> question_number,
                 selectedOption |-> "",
                 confidence     |-> Zero,
                 ambiguous      |-> FALSE,
                 notes          |-> "Error: " \o reply.error])
    ELSE IF reply.kind = "json"
    THEN Return([questionNumber |-> question_number,
                 selectedOption |-> PyGet(reply.parsed, "selectedOption", ""),
                 confidence     |-> PyGet(reply.parsed, "confidence", <<8, 10>>),
                 ambiguous      |-> FALSE,
                 notes          |-> "Row-by-row AI"])
    ELSE Return([questionNumber |-> question_number,
                 selectedOption |-> "",
                 confidence     |-> Zero,
                 ambiguous      |-> FALSE,
                 notes          |-> "AI error: " \o ToString(reply.code)])

\* app.py:247-255: the verdict appended when future.result() raises
failed_future_verdict(question_num, error) ==
    [questionNumber |-> question_num,
     selectedOption |-> "",
     confidence     |-> Zero,
     ambiguous      |-> FALSE,
     notes          |-> "Error: " \o error]

\* results.sort(key=lambda x: x['questionNumber']): stable
RECURSIVE SortResults(_)
SortResults(s) ==
    IF Len(s) <= 1 THEN s
    ELSE LET sorted == SortResults(SubSeq(s, 1, Len(s) - 1))
             e      == s[Len(s)]
             k      == Cardinality({i \in 1..Len(sorted) :
                                      sorted[i].questionNumber <= e.questionNumber})
         IN  SubSeq(sorted, 1, k) \o <<e>> \o SubSeq(sorted, k + 1, Len(sorted))

-----------------------------------------------------------------------------
(***************************************************************************)
(* The request: process_omr (the same handler in both files) and the        *)
(* steps of process_omr_sheet.  An exception anywhere below process_omr is  *)
(* caught at app.py:292 / app_v2.py:259 and answered with status 500.       *)
(***************************************************************************)
\* largest question count of a request served by the worker pool
MaxRemoteQuestions == 3

\* The remote strategy runs one task per question, so its requests name a
\* small count; the grid strategy takes every count up to the default.
Requests(strat) ==
    {[json |-> FALSE], [json |-> TRUE, imageUrl |-> FALSE]} \cup
    {[json |-> TRUE, imageUrl |-> TRUE, numberOfQuestions |-> n] :
        n \in IF strat = "grid" THEN 0..DefaultQuestions ELSE 0..MaxRemoteQuestions} \cup
    (IF strat = "grid" THEN {[json |-> TRUE, imageUrl |-> TRUE]} ELSE {})

Init ==
    /\ strategy \in {"grid", "remote"}
    /\ request \in Requests(strategy)
    /\ pc = "request"
    /\ num_questions = 0
    /\ api_key \in IF strategy = "remote" THEN BOOLEAN ELSE {FALSE}
    /\ image = NoImage
    /\ grid_regions = <<>>
    /\ main_grid = NoGrid
    /\ densities = <<>>
    /\ question_rows = <<>>
    /\ classifier = <<>>
    /\ futures = <<>>
    /\ results = <<>>
    /\ payload = NoPayload
    /\ row_imgs = <<>>
    /\ arrival = <<>>
    /\ response = NoResponse

\* jsonify({'error': ...}), status
ErrorResponse(status, msg) == [status |-> status, body |-> [error |-> msg]]

\* process_omr, up to the call of process_omr_sheet
Receive ==
    /\ pc = "request"
    /\ IF ~request.json
       THEN /\ response' = ErrorResponse(400, "No JSON data")
            /\ pc' = "done"
            /\ UNCHANGED num_questions
       ELSE IF ~request.imageUrl
       THEN /\ response' = ErrorResponse(400, "imageUrl required")
            /\ pc' = "done"
            /\ UNCHANGED num_questions
       ELSE /\ num_questions' = PyGet(request, "numberOfQuestions", DefaultQuestions)
            /\ pc' = "download"
            /\ UNCHANGED response
    /\ UNCHANGED <<strategy, request, api_key, image, grid_regions, main_grid,
                  densities, question_rows, classifier, futures, results,
                  payload, row_imgs, arrival>>

\* process_omr_sheet up to the downloaded image (app.py:220-228, app_v2.py:203-206)
Download ==
    /\ pc = "download"
    /\ IF strategy = "remote" /\ ~api_key
       THEN /\ response' = ErrorResponse(500, "OPENAI_API_KEY not set")
            /\ pc' = "done"
            /\ UNCHANGED <<image, payload>>
       ELSE \E served \in Payloads(strategy) :
              LET got == download_image(served)
              IN  /\ payload' = served
                  /\ IF got.raised
                     THEN /\ response' = ErrorResponse(500, got.error)
                          /\ pc' = "done"
                          /\ UNCHANGED image
                     ELSE /\ image' = got.value
                          /\ pc' = IF strategy = "grid" THEN "detect" ELSE "rows"
                          /\ UNCHANGED response
    /\ UNCHANGED <<strategy, request, num_questions, api_key, grid_regions,
                  main_grid, densities, question_rows, classifier, futures,
                  results, row_imgs, arrival>>

\* app_v2.py:208-223: preprocess, detect the grid blocks, fall back, pick the largest
DetectGrid ==
    /\ strategy = "grid"
    /\ pc = "detect"
    /\ \E cs \in SUBSET Contours(image) : \E contours \in Orders(cs) :
         LET detected == detect_answer_grid_regions(image, contours)
             regions  == IF detected = <<>> THEN <<fallback_grid(image)>> ELSE detected
         IN  /\ grid_regions' = regions
             /\ main_grid' = PyMaxBy(regions)
    /\ pc' = "extract"
    /\ UNCHANGED <<strategy, request, num_questions, api_key, image,
                  densities, question_rows, classifier, futures, results,
                  response, payload, row_imgs, arrival>>

\* app_v2.py:225, extract_answers_from_grid as a whole.  cv2.threshold on an
\* empty grid image (line 113) is the library's to accept or to reject; the
\* division of line 121 raises for a count of 0.
ExtractAnswers ==
    /\ strategy = "grid"
    /\ pc = "extract"
    /\ \/ /\ main_grid.h * main_grid.w = 0
          /\ response' = ErrorResponse(500, "cv2.error")
          /\ pc' = "done"
          /\ UNCHANGED <<results, row_imgs>>
       \/ /\ num_questions = 0
          /\ response' = ErrorResponse(500, "ZeroDivisionError")
          /\ pc' = "done"
          /\ UNCHANGED <<results, row_imgs>>
       \/ /\ num_questions > 0
          /\ results' = extract_answers_from_grid(image, main_grid, num_questions)
          /\ row_imgs' = [q \in 1..num_questions |->
                            grid_row_img(main_grid, q, num_questions)]
          /\ pc' = "return"
          /\ UNCHANGED response
    /\ UNCHANGED <<strategy, request, num_questions, api_key, image,
                  grid_regions, main_grid, densities, question_rows,
                  classifier, futures, payload, arrival>>

\* app_v2.py:229-233 and jsonify(result), 200
ReturnGrid ==
    /\ strategy = "grid"
    /\ pc = "return"
    /\ response' = [status |-> 200,
                    body |-> [answers |-> results,
                              totalDetected |-> Len(results),
                              gridRegions |-> Len(grid_regions)]]
    /\ pc' = "done"
    /\ UNCHANGED <<strategy, request, num_questions, api_key, image,
                  grid_regions, main_grid, densities, question_rows,
                  classifier, futures, results, payload, row_imgs, arrival>>

-----------------------------------------------------------------------------
(***************************************************************************)
(* app.py, process_omr_sheet from line 231: the row crops, the pool of     *)
(* worker threads, the collection of the results and the final sort.       *)
(* A future is [state, outcome]: "pending" (queued), "running" (a worker   *)
(* is inside analyze_row_with_ai), "done" (finished, not yet yielded by    *)
(* as_completed), "collected" (its verdict is appended to results).        *)
(***************************************************************************)
\* app.py:236  ThreadPoolExecutor(max_workers=5)
max_workers == 5

NoOutcome == [raised |-> FALSE]

\* app.py:231.  The division of line 88 raises for a count of 0.
ExtractRows ==
    /\ strategy = "remote"
    /\ pc = "rows"
    /\ IF num_questions = 0
       THEN /\ response' = ErrorResponse(500, "ZeroDivisionError")
            /\ pc' = "done"
            /\ UNCHANGED question_rows
       ELSE /\ question_rows' = extract_question_rows(image, num_questions)
            /\ pc' = "submit"
            /\ UNCHANGED response
    /\ UNCHANGED <<strategy, request, num_questions, api_key, image,
                  grid_regions, main_grid, densities, classifier, futures,
                  results, payload, row_imgs, arrival>>

\* app.py:236-240: one task per row is submitted; what the classifier will
\* answer to each of them is fixed here
Submit ==
    /\ strategy = "remote"
    /\ pc = "submit"
    /\ \E cl \in [1..Len(question_rows) -> UNION {RepliesFor(question_rows[i]) :
                                                  i \in 1..Len(question_rows)}] :
         /\ \A i \in 1..Len(question_rows) : cl[i] \in RepliesFor(question_rows[i])
         /\ classifier' = cl
    /\ futures' = [i \in 1..Len(question_rows) |->
                     [state |-> "pending", outcome |-> NoOutcome]]
    /\ pc' = "collect"
    /\ UNCHANGED <<strategy, request, num_questions, api_key, image,
                  grid_regions, main_grid, densities, question_rows, results,
                  response, payload, row_imgs, arrival>>

Running == {i \in 1..Len(futures) : futures[i].state = "running"}

\* a pool that starts the oldest queued task whether or not a worker is free
StartUnbounded(i) ==
    /\ pc = "collect"
    /\ i \in DOMAIN futures
    /\ futures[i].state = "pending"
    /\ \A j \in 1..(i - 1) : futures[j].state # "pending"
    /\ futures' = [futures EXCEPT ![i].state = "running"]
    /\ UNCHANGED <<strategy, request, pc, num_questions, api_key, image,
                  grid_regions, main_grid, densities, question_rows,
                  classifier, results, response, payload, row_imgs, arrival>>

\* a free worker takes the oldest queued task
Start(i) ==
    /\ pc = "collect"
    /\ i \in DOMAIN futures
    /\ futures[i].state = "pending"
    /\ \A j \in 1..(i - 1) : futures[j].state # "pending"
    /\ Cardinality(Running) < max_workers
    /\ futures' = [futures EXCEPT ![i].state = "running"]
    /\ UNCHANGED <<strategy, request, pc, num_questions, api_key, image,
                  grid_regions, main_grid, densities, question_rows,
                  classifier, results, response, payload, row_imgs, arrival>>

\* the worker returns from analyze_row_with_ai(row_img, idx + 1, api_key)
Finish(i) ==
    /\ pc = "collect"
    /\ i \in DOMAIN futures
    /\ futures[i].state = "running"
    /\ futures' = [futures EXCEPT ![i] =
                     [state   |-> "done",
                      outcome |-> analyze_row_with_ai(question_rows[i], i, classifier[i])]]
    /\ UNCHANGED <<strategy, request, pc, num_questions, api_key, image,
                  grid_regions, main_grid, densities, question_rows,
                  classifier, results, response, payload, row_imgs, arrival>>

\* app.py:242-255: as_completed yields a finished future
collected_verdict(question_num, outcome) ==
    IF outcome.raised THEN failed_future_verdict(question_num, outcome.error)
    ELSE outcome.value

Collect(i) ==
    /\ pc = "collect"
    /\ i \in DOMAIN futures
    /\ futures[i].state = "done"
    /\ results' = Append(results, collected_verdict(i, futures[i].outcome))
    /\ arrival' = Append(arrival, i)
    /\ futures' = [futures EXCEPT ![i].state = "collected"]
    /\ UNCHANGED <<strategy, request, pc, num_questions, api_key, image,
                  grid_regions, main_grid, densities, question_rows,
                  classifier, response, payload, row_imgs>>

\* results returned in the order of arrival
unsorted_results(rs) == rs

\* app.py:257-258
sorted_results(rs) == SortResults(rs)

\* app.py:260-266 and jsonify(result), 200

ReturnRemote ==
    /\ strategy = "remote"
    /\ pc = "collect"
    /\ \A i \in 1..Len(futures) : futures[i].state = "collected"
    /\ results' = sorted_results(results)
    /\ response' = [status |-> 200,
                    body |-> [answers |-> sorted_results(results),
                              totalDetected |-> Len(results),
                              rowsDetected |-> num_questions]]
    /\ pc' = "done"
    /\ UNCHANGED <<strategy, request, num_questions, api_key, image,
                  grid_regions, main_grid, densities, question_rows,
                  classifier, futures, payload, row_imgs, arrival>>

Next ==
    \/ Receive
    \/ Download
    \/ DetectGrid
    \/ ExtractAnswers
    \/ ReturnGrid
    \/ ExtractRows
    \/ Submit
    \/ \E i \in DOMAIN futures : Start(i)
    \/ \E i \in DOMAIN futures : Finish(i)
    \/ \E i \in DOMAIN futures : Collect(i)
    \/ ReturnRemote

Spec == Init /\ [][Next]_vars

-----------------------------------------------------------------------------
(***************************************************************************)
(* The worker pool alone, on sheets of more questions than the requests of *)
(* Spec name, up to more questions than workers.  The run starts where     *)
(* app.py:236-240 leaves it: the rows are cropped, one task per row is     *)
(* queued, none has started.  The classifier answers every row of a sheet  *)
(* in the same way.                                                        *)
(***************************************************************************)
\* largest question count of a sheet handed to the pool
MaxPoolQuestions == 6

PoolImages == {im \in RemoteImages : im.height = MaxHeight}

\* the replies every row of the sheet can get
PoolReplies(rows) == {r \in UNION {RepliesFor(rows[i]) : i \in DOMAIN rows} :
                        \A i \in DOMAIN rows : r \in RepliesFor(rows[i])}

InitPool ==
    /\ strategy = "remote"
    /\ request \in {[json |-> TRUE, imageUrl |-> TRUE, numberOfQuestions |-> n] :
                       n \in (MaxRemoteQuestions + 1)..MaxPoolQuestions}
    /\ pc = "collect"
    /\ num_questions = request.numberOfQuestions
    /\ api_key = TRUE
    /\ image \in PoolImages
    /\ payload = [kind |-> "image", image |-> image]
    /\ grid_regions = <<>>
    /\ main_grid = NoGrid
    /\ densities = <<>>
    /\ question_rows = extract_question_rows(image, num_questions)
    /\ classifier \in {[i \in DOMAIN question_rows |-> r] : r \in PoolReplies(question_rows)}
    /\ futures = [i \in DOMAIN question_rows |->
                    [state |-> "pending", outcome |-> NoOutcome]]
    /\ results = <<>>
    /\ row_imgs = <<>>
    /\ arrival = <<>>
    /\ response = NoResponse

NextPool ==
    \/ \E i \in DOMAIN futures : Start(i)
    \/ \E i \in DOMAIN futures : Finish(i)
    \/ \E i \in DOMAIN futures : Collect(i)
    \/ ReturnRemote

SpecPool == InitPool /\ [][NextPool]_vars

-----------------------------------------------------------------------------
(***************************************************************************)
(* The decision alone, on every vector of five scores of a cell of         *)
(* CellArea pixels.                                                        *)
(***************************************************************************)
CellScores == {<<c, CellArea>> : c \in 0..CellArea}

InitDecide ==
    /\ strategy = "decide"
    /\ request = [json |-> FALSE]
    /\ pc = "scored"
    /\ num_questions = 1
    /\ api_key = FALSE
    /\ image = NoImage
    /\ grid_regions = <<>>
    /\ main_grid = NoGrid
    /\ densities \in [1..OptionsPerQuestion -> CellScores]
    /\ question_rows = <<>>
    /\ classifier = <<>>
    /\ futures = <<>>
    /\ results = <<>>
    /\ payload = NoPayload
    /\ row_imgs = <<>>
    /\ arrival = <<>>
    /\ response = NoResponse

Decide ==
    /\ strategy = "decide"
    /\ pc = "scored"
    /\ results' = Append(results, row_verdict(1, densities))
    /\ pc' = "decided"
    /\ UNCHANGED <<strategy, request, num_questions, api_key, image,
                  grid_regions, main_grid, densities, question_rows,
                  classifier, futures, response, payload, row_imgs, arrival>>

NextDecide == Decide

SpecDecide == InitDecide /\ [][NextDecide]_vars

-----------------------------------------------------------------------------
(***************************************************************************)
(* Properties.                                                             *)
(***************************************************************************)
Answers == response.body.answers
Returned == response.status = 200
VerdictKeys == {"questionNumber", "selectedOption", "confidence", "ambiguous", "notes"}

\* C1: whenever process_omr_sheet returns, in either pipeline, its answers
\* list holds exactly num_questions verdicts (and totalDetected says so),
\* whatever the grid size, the rows that could be cropped and the replies of
\* the classifier.
C1_AnswerCount ==
    Returned =>
        /\ Len(Answers) = num_questions
        /\ response.body.totalDetected = num_questions

\* C1 witness: the grid pipeline returned 45 verdicts from a grid block too
\* short for any row to be extracted.
C1_Witness ==
    /\ Returned
    /\ strategy = "grid"
    /\ num_questions = DefaultQuestions
    /\ Len(Answers) = DefaultQuestions
    /\ grid_row_height(main_grid, num_questions) = 0
    /\ Answers[41].notes = "Could not extract row"

\* C2: an ambiguous verdict has no selected option and confidence 0.0.
C2_AmbiguousHasZeroConfidence ==
    \A i \in 1..Len(results) :
        ("ambiguous" \in DOMAIN results[i] /\ results[i].ambiguous) =>
            /\ results[i].selectedOption = ""
            /\ results[i].confidence[1] = 0

\* C3: the answers returned by the remote pipeline are in ascending order of
\* question number and hold each question 1..num_questions exactly once,
\* whatever the order in which the tasks completed.
C3_SortedOncePerQuestion ==
    (Returned /\ strategy = "remote") =>
        /\ Len(Answers) = num_questions
        /\ \A i \in 1..Len(Answers) : Answers[i].questionNumber = i

\* C3 witness: three tasks arrived in the order 3, 1, 2 and the sheet returned.
C3_Witness ==
    /\ Returned
    /\ strategy = "remote"
    /\ arrival = <<3, 1, 2>>
    /\ Answers[3].questionNumber = 3

\* C4: in the remote pipeline a failed call for question q (a status other
\* than 200, a timeout or unparseable reply, an exception before the call)
\* leaves for q an error verdict with no selected option, confidence 0.0 and a
\* note carrying the reason; every other question keeps the verdict its own
\* reply gives; every task is collected and the sheet returns with status 200.
FailureReason(reply) ==
    IF reply.kind = "status" THEN "AI error: 500" ELSE "Error: " \o reply.error

C4_FailureStaysLocal ==
    (strategy = "remote" /\ pc = "done" /\ futures # <<>>) =>
        /\ Returned
        /\ \A q \in 1..num_questions :
             /\ futures[q].state = "collected"
             /\ Answers[q].questionNumber = q
             /\ Answers[q].ambiguous = FALSE
             /\ IF classifier[q].kind = "json"
                THEN /\ Answers[q].notes = "Row-by-row AI"
                     /\ IF "selectedOption" \in DOMAIN classifier[q].parsed
                        THEN /\ Answers[q].selectedOption = classifier[q].parsed.selectedOption
                             /\ Answers[q].confidence = classifier[q].parsed.confidence
                        ELSE /\ Answers[q].selectedOption = ""
                             /\ Answers[q].confidence = <<8, 10>>
                ELSE /\ Answers[q].selectedOption = ""
                     /\ Answers[q].confidence = Zero
                     /\ Answers[q].notes = FailureReason(classifier[q])

\* C4 witness: of three questions the second timed out and the third got
\* status 500 while the first was answered "3"; the sheet returned.
C4_Witness ==
    /\ Returned
    /\ strategy = "remote"
    /\ num_questions = 3
    /\ classifier[1].kind = "json"
    /\ classifier[2].kind = "raise"
    /\ classifier[3].kind = "status"
    /\ Answers[1].selectedOption = "3"
    /\ Answers[2].notes = "Error: Read timed out"
    /\ Answers[3].notes = "AI error: 500"

\* C5: every verdict carries the five keys questionNumber, selectedOption,
\* confidence, ambiguous and notes.
C5_AllFiveKeys ==
    \A i \in 1..Len(results) : DOMAIN results[i] = VerdictKeys

\* C6: a question whose row crop is empty gets a verdict with no selected
\* option and a note saying the row was not detected, in both pipelines.
RowNotDetectedNotes == {"Could not extract row", "Row not detected"}

C6_MissingRowPlaceholder ==
    /\ (Returned /\ strategy = "grid") =>
          \A q \in 1..num_questions :
              RectSize(row_imgs[q]) = 0 =>
                  /\ Answers[q].selectedOption = ""
                  /\ Answers[q].notes \in RowNotDetectedNotes
    /\ (Returned /\ strategy = "remote") =>
          \A q \in 1..num_questions :
              question_rows[q].blank =>
                  /\ Answers[q].selectedOption = ""
                  /\ Answers[q].notes \in RowNotDetectedNotes

\* C7: when exactly two slots hold the maximal score and that score is not
\* below the 0.1 floor, the verdict is ambiguous and selects nothing.
MaxSlots(ds) == {i \in 1..Len(ds) : \A j \in 1..Len(ds) : ~ScoreLess(ds[i], ds[j])}

C7_TieIsAmbiguous ==
    (pc = "decided" /\ Cardinality(MaxSlots(densities)) = 2
                    /\ \E i \in MaxSlots(densities) : ~BelowFloor(densities[i])) =>
        /\ results[1].ambiguous = TRUE
        /\ results[1].selectedOption = ""

\* C7 witness: slots 2 and 4 tie at 8/11, the others are lower.
C7_Witness ==
    /\ pc = "decided"
    /\ densities = <<<<3, CellArea>>, <<8, CellArea>>, <<0, CellArea>>,
                     <<8, CellArea>>, <<1, CellArea>>>>
    /\ MaxSlots(densities) = {2, 4}
    /\ results[1].ambiguous

\* C8: when the image bytes do not decode the request is over at once: the
\* response is the single error of status 500, no row was cropped, no task
\* was submitted and no verdict exists.
C8_DecodeFailureAborts ==
    payload.kind = "undecodable" =>
        /\ pc = "done"
        /\ response = ErrorResponse(500, "Failed to decode image")
        /\ image = NoImage
        /\ question_rows = <<>>
        /\ row_imgs = <<>>
        /\ futures = <<>>
        /\ arrival = <<>>
        /\ results = <<>>

\* C8 witness: a remote request for three questions got undecodable bytes.
C8_Witness ==
    /\ payload.kind = "undecodable"
    /\ strategy = "remote"
    /\ api_key
    /\ num_questions = 3
    /\ response.status = 500

\* C9: when the maximal score is at least the 0.1 floor and no other slot
\* scores above 0.7 times it, the verdict selects the 1-based position of
\* that slot with its score as confidence and is not ambiguous; when the
\* maximum is below the floor the verdict is "no answer".
C9_SelectsLoneMaximum ==
    pc = "decided" =>
        /\ \A k \in 1..OptionsPerQuestion :
              ( /\ ~BelowFloor(densities[k])
                /\ \A j \in (1..OptionsPerQuestion) \ {k} :
                      /\ ~ScoreLess(densities[k], densities[j])
                      /\ ~AboveRelative(densities[j], densities[k]) ) =>
                  /\ results[1].selectedOption = ToString(k)
                  /\ results[1].confidence = densities[k]
                  /\ results[1].ambiguous = FALSE
        /\ (\A k \in 1..OptionsPerQuestion : BelowFloor(densities[k])) =>
              /\ results[1].selectedOption = ""
              /\ results[1].confidence[1] = 0
              /\ results[1].ambiguous = FALSE

\* C9 witness: slot 4 scores 10/11, slot 2 exactly 0.7 times that, and slot 4
\* is selected.
C9_Witness ==
    /\ pc = "decided"
    /\ densities = <<<<0, CellArea>>, <<7, CellArea>>, <<2, CellArea>>,
                     <<10, CellArea>>, <<0, CellArea>>>>
    /\ results[1].selectedOption = "4"

\* C10: two distinct questions never read the same rectangle of the grid
\* block: the row slices of the grid strategy differ, and so do the row crops
\* of the remote strategy.
C10_DistinctRectangles ==
    /\ \A p \in 1..Len(row_imgs) : \A q \in 1..Len(row_imgs) :
          (p # q /\ RectSize(row_imgs[p]) > 0) => row_imgs[p] # row_imgs[q]
    /\ \A p \in 1..Len(question_rows) : \A q \in 1..Len(question_rows) :
          (p # q /\ ~question_rows[p].blank) =>
              question_rows[p].rect # question_rows[q].rect

\* C11: in the remote path at most max_workers (5) classifier calls are in
\* flight at every moment, for every question count, also one above 5; a
\* queued task starts only when fewer than 5 are in flight; and
\* process_omr_sheet returns only after every one of the N tasks has
\* completed and its verdict is collected.
C11_AtMostFiveInFlight ==
    /\ [](strategy = "remote" =>
            /\ Cardinality(Running) <= max_workers
            /\ (response.status = 200 =>
                   /\ Len(futures) = num_questions
                   /\ \A i \in DOMAIN futures : futures[i].state = "collected"
                   /\ Len(response.body.answers) = num_questions))
    /\ [][\A i \in DOMAIN futures :
             (futures[i].state = "pending" /\ futures'[i].state = "running")
                 => Cardinality(Running) < max_workers]_vars

\* all five workers are busy while a further task waits in the queue
C11_Witness ==
    /\ strategy = "remote"
    /\ num_questions > max_workers
    /\ Cardinality(Running) = max_workers
    /\ \E i \in DOMAIN futures : futures[i].state = "pending"

====
